---- MODULE Spec2Model ----
(***************************************************************************)
(* Tenant registry and encrypted session storage (shopify.server.ts), the  *)
(* relational schema they run on (the migration SQL at the end of          *)
(* DEPLOY.md), the background worker's shutdown sequence                   *)
(* (scripts/worker.js), and the delivery ledger and job table that the     *)
(* dispatcher and the pollers work on.                                     *)
(***************************************************************************)
EXTENDS Integers, Sequences, FiniteSets, TLC

\* ------------------------------------------------------------------ bounds
MaxLayers == 2        \* storeSession / afterAuth run on a Session whose token
                      \* carries fewer than MaxLayers encryptions
MaxJobs == 1          \* a lane holds at most MaxJobs waiting and MaxJobs active jobs

\* ------------------------------------------------------------ value spaces
\* a.example is exercised with two tokens and two profiles; b.example is
\* the second tenant, with one token and one profile
Tenants == {"a.example", "b.example"}
TokenIdsOf(s) == IF s = "a.example" THEN {1, 2} ELSE {1}
ProfilesOf(s) == IF s = "a.example" THEN {"p1", "p2"} ELSE {"p1"}
NoName == "null"
\* the values `new Date()` takes; 0 stands for a NULL timestamp
Times == {1}

\* A token value: the plaintext issued for `shop` (number n) under `layers`
\* applications of encryptToken.  layers = 0 is the plaintext itself.
NoToken == [shop |-> "none", n |-> 0, layers |-> 0]
Plain(s, k) == [shop |-> s, n |-> k, layers |-> 0]

\* lib/crypto.server.ts
encryptToken(v) == [v EXCEPT !.layers = @ + 1]
CanDecrypt(v) == v.layers > 0
decryptToken(v) == [v EXCEPT !.layers = @ - 1]

\* An in-memory Session object, and the absence of one.  The app uses
\* offline tokens only: a tenant has one session id, "offline_<shop>".
NoSession == [shop |-> "none", accessToken |-> NoToken]
SessionId(o) == o.shop

VARIABLES
  shops,      \* table shops: shop key -> row
  sessions,   \* table sessions: session id -> row
  session,    \* the Session object the auth flow / caller currently holds
  \* --- the worker process (scripts/worker.js) and its two queues
  isShuttingDown,  \* the module-level flag
  trigger,         \* what called the running gracefulShutdown: "signal", "fault"
  wpc,             \* where gracefulShutdown stands ("run": it was not called)
  timerArmed,      \* shutdownTimeout is set and not cleared
  elapsed,         \* ms since shutdownTimeout was set
  wake,            \* value of elapsed at which the 1000 ms poll delay ends
  wRead,           \* what (await webhookQueue.active()).length evaluated to
  exitCode,        \* -1 while the process lives, else the code of process.exit
  paused,          \* lane -> paused
  waiting,         \* lane -> number of waiting jobs
  active,          \* lane -> number of active jobs
  activeKind,      \* what queue.active() resolves to: "list" or "count"
  health,          \* what the last health tick logged
  \* --- the delivery ledger, the job table and the pollers
  deliveries,      \* table webhook_deliveries: record id -> row
  jobs,            \* table queue_jobs: job id -> row
  holding,         \* poller -> id of the job it is executing, 0 for none
  \* --- the /healthz route
  response         \* the last answer of the /healthz loader

rvars == <<shops, sessions, session>>
wvars == <<isShuttingDown, trigger, wpc, timerArmed, elapsed, wake, wRead,
           exitCode, paused, waiting, active, activeKind, health>>
pvars == <<deliveries, jobs, holding>>
vars == <<rvars, wvars, pvars, response>>

\* ------------------------------------------------------------ the store
\* sessions_shop_fkey: a session row must reference an existing shop row
FkSessionOk(sh, s) == s \in DOMAIN sh
\* ON DELETE RESTRICT: a shop row referenced by a session row cannot go
FkShopDeletable(se, s) == \A id \in DOMAIN se : se[id].shop # s

Put(f, k, v) == [x \in DOMAIN f \cup {k} |-> IF x = k THEN v ELSE f[x]]
Drop(f, ks) == [x \in DOMAIN f \ ks |-> f[x]]

\* webhook_deliveries_shop_fkey: a delivery row must reference an existing
\* shop row
FkDeliveryOk(sh, s) == s \in DOMAIN sh
\* ON DELETE CASCADE: the delivery rows of a deleted shop row go with it
cascadeDeliveries(dl, sh) ==
  [id \in {x \in DOMAIN dl : dl[x].shop \in DOMAIN sh} |-> dl[id]]

\* PrismaSessionStorage.storeSession: upsert of the row by session id
superStoreSession(se, o) ==
  Put(se, SessionId(o), [shop |-> o.shop, access_token |-> o.accessToken])

\* prisma.shop.upsert of storeSession
storeShopUpsert(sh, s, tok) ==
  IF s \in DOMAIN sh
  THEN Put(sh, s, [sh[s] EXCEPT !.accessTokenEncrypted = tok, !.isActive = TRUE])
  ELSE Put(sh, s, [name |-> NoName, accessTokenEncrypted |-> tok,
                   isActive |-> TRUE, uninstalledAt |-> 0])

\* (mutant) the token is passed to the store as it came
storeSession_Plain(sh, se, o, fault) ==
  IF fault = "session" \/ ~FkSessionOk(sh, o.shop)
  THEN [shops |-> sh, sessions |-> se, session |-> o, ret |-> FALSE]
  ELSE IF fault = "shop"
  THEN [shops |-> sh, sessions |-> superStoreSession(se, o),
        session |-> o, ret |-> FALSE]
  ELSE [shops |-> storeShopUpsert(sh, o.shop, encryptToken(o.accessToken)),
        sessions |-> superStoreSession(se, o),
        session |-> o, ret |-> TRUE]

\* EncryptedPrismaSessionStorage.storeSession: the tables, the caller's
\* Session object and the return value after the call.  fault is "none",
\* "session" (the session upsert threw) or "shop" (the shop upsert threw);
\* the session upsert also throws on sessions_shop_fkey.
storeSession(sh, se, o, fault) ==
  LET originalToken == o.accessToken
      o1 == [o EXCEPT !.accessToken = encryptToken(originalToken)]
  IN  IF fault = "session" \/ ~FkSessionOk(sh, o.shop)
      THEN [shops |-> sh, sessions |-> se, session |-> o1, ret |-> FALSE]
      ELSE IF fault = "shop"
      THEN [shops |-> sh, sessions |-> superStoreSession(se, o1),
            session |-> o1, ret |-> FALSE]
      ELSE [shops |-> storeShopUpsert(sh, o.shop, encryptToken(originalToken)),
            sessions |-> superStoreSession(se, o1),
            session |-> o1, ret |-> TRUE]

\* EncryptedPrismaSessionStorage.loadSession: the Session returned, or
\* NoSession for undefined (no such row, or decryptToken threw)
loadSession(se, id) ==
  IF id \notin DOMAIN se THEN NoSession
  ELSE LET row == se[id]
       IN  IF row.access_token = NoToken
           THEN [shop |-> row.shop, accessToken |-> NoToken]
           ELSE IF ~CanDecrypt(row.access_token) THEN NoSession
           ELSE [shop |-> row.shop,
                 accessToken |-> decryptToken(row.access_token)]

\* (mutant) the create branch leaves the credential out
afterAuth_NoCredential(sh, o, env, profile) ==
  IF env # "ok" THEN sh
  ELSE IF o.shop \in DOMAIN sh
  THEN Put(sh, o.shop, [sh[o.shop] EXCEPT
             !.name = profile,
             !.accessTokenEncrypted = encryptToken(o.accessToken),
             !.isActive = TRUE,
             !.uninstalledAt = 0])
  ELSE Put(sh, o.shop, [name |-> profile, accessTokenEncrypted |-> NoToken,
             isActive |-> TRUE, uninstalledAt |-> 0])

\* hooks.afterAuth: the shops table after the hook.  env is what the
\* collaborators did: "ok", "register" (registerWebhooks threw), "noshop"
\* (Shop.all returned no shop), "db" (the upsert threw)
afterAuth(sh, o, env, profile) ==
  IF env # "ok" THEN sh
  ELSE IF o.shop \in DOMAIN sh
  THEN Put(sh, o.shop, [sh[o.shop] EXCEPT
             !.name = profile,
             !.accessTokenEncrypted = encryptToken(o.accessToken),
             !.isActive = TRUE,
             !.uninstalledAt = 0])
  ELSE Put(sh, o.shop, [name |-> profile,
             accessTokenEncrypted |-> encryptToken(o.accessToken),
             isActive |-> TRUE, uninstalledAt |-> 0])

\* (mutant) the uninstall also clears the stored credential
appUninstalled_Cleanup(sh, s, dbOk, t) ==
  IF dbOk /\ s \in DOMAIN sh
  THEN Put(sh, s, [sh[s] EXCEPT !.isActive = FALSE, !.uninstalledAt = t,
                                !.accessTokenEncrypted = NoToken])
  ELSE sh

\* (mutant) the uninstall flips isActive instead of clearing it
appUninstalled_Toggle(sh, s, dbOk, t) ==
  IF dbOk /\ s \in DOMAIN sh
  THEN Put(sh, s, [sh[s] EXCEPT !.isActive = ~@, !.uninstalledAt = t])
  ELSE sh

\* webhooks.APP_UNINSTALLED.callback: the shops table after the callback;
\* prisma.shop.update throws when there is no such row
appUninstalled(sh, s, dbOk, t) ==
  IF dbOk /\ s \in DOMAIN sh
  THEN Put(sh, s, [sh[s] EXCEPT !.isActive = FALSE, !.uninstalledAt = t])
  ELSE sh

\* (mutant) deleteMany without its where clause
shopRedact_AllSessions(sh, se, s, fault) ==
  IF fault = "shop" \/ s \notin DOMAIN sh
  THEN [shops |-> sh, sessions |-> se]
  ELSE IF fault = "session"
  THEN [shops |-> Drop(sh, {s}), sessions |-> se]
  ELSE [shops |-> Drop(sh, {s}), sessions |-> Drop(se, DOMAIN se)]

\* webhooks.SHOP_REDACT.callback: both tables after the callback.  fault is
\* "none", "shop" (shop.delete threw) or "session" (session.deleteMany
\* threw); shop.delete also throws when there is no such row and on
\* sessions_shop_fkey
shopRedact(sh, se, s, fault) ==
  IF fault = "shop" \/ s \notin DOMAIN sh \/ ~FkShopDeletable(se, s)
  THEN [shops |-> sh, sessions |-> se]
  ELSE IF fault = "session"
  THEN [shops |-> Drop(sh, {s}), sessions |-> se]
  ELSE [shops |-> Drop(sh, {s}),
        sessions |-> Drop(se, {id \in DOMAIN se : se[id].shop = s})]

Lanes == {"webhook", "general"}
Signals == {"SIGTERM", "SIGINT", "SIGUSR2"}
Faults == {"uncaughtException", "unhandledRejection"}
\* a JavaScript number that may be undefined / NaN
Num(n) == [def |-> TRUE, v |-> n]
NaN == [def |-> FALSE, v |-> 0]

RegistryInit ==
  /\ shops = <<>>
  /\ sessions = <<>>
  /\ session = NoSession

\* the fields a health report carries for each lane
HealthFields ==
  [l \in Lanes |-> IF l = "webhook" THEN {"waiting", "active", "failed"}
                   ELSE {"waiting", "active"}]
NoReport == [level |-> "none", lanes |-> [l \in Lanes |-> {}]]

\* the worker right after startWorker()
WorkerInit ==
  /\ health = NoReport
  /\ isShuttingDown = FALSE
  /\ trigger = "none"
  /\ wpc = "run"
  /\ timerArmed = FALSE
  /\ elapsed = 0
  /\ wake = 0
  /\ wRead = NaN
  /\ exitCode = -1
  /\ paused = [l \in Lanes |-> FALSE]
  /\ waiting = [l \in Lanes |-> 0]
  /\ active = [l \in Lanes |-> 0]

Pollers == {"w1", "w2"}

PipelineInit ==
  /\ deliveries = <<>>
  /\ jobs = <<>>
  /\ holding = [w \in Pollers |-> 0]

\* the /healthz route has not answered yet
NoResponse == [code |-> 0, status |-> "none", metrics |-> <<>>]

Init ==
  /\ RegistryInit
  /\ WorkerInit
  /\ PipelineInit
  /\ activeKind = "list"
  /\ response = NoResponse

\* The auth collaborator hands over a fresh Session for tenant s
NewSession(s, n) ==
  /\ session' = [shop |-> s, accessToken |-> Plain(s, n)]
  /\ UNCHANGED <<shops, sessions, wvars, response, pvars>>

StoreSession(fault) ==
  /\ session # NoSession
  /\ session.accessToken.layers < MaxLayers
  /\ LET r == storeSession(shops, sessions, session, fault)
     IN  /\ shops' = r.shops
         /\ sessions' = r.sessions
         /\ session' = r.session
  /\ UNCHANGED <<wvars, response, pvars>>

LoadSession(s) ==
  /\ session' = loadSession(sessions, s)
  /\ UNCHANGED <<shops, sessions, wvars, response, pvars>>

AfterAuth(env) ==
  /\ session # NoSession
  /\ session.accessToken.layers < MaxLayers
  /\ \E profile \in ProfilesOf(session.shop) :
       shops' = afterAuth(shops, session, env, profile)
  /\ UNCHANGED <<sessions, session, wvars, response, pvars>>

\* The library's auth flow for a fresh Session of tenant s: storeSession,
\* then the afterAuth hook on the same Session object
Install(s, n) ==
  LET o == [shop |-> s, accessToken |-> Plain(s, n)]
      r == storeSession(shops, sessions, o, "none")
  IN  /\ \E profile \in ProfilesOf(s) :
           shops' = afterAuth(r.shops, r.session, "ok", profile)
      /\ sessions' = r.sessions
      /\ session' = r.session
      /\ UNCHANGED <<wvars, response, pvars>>

AppUninstalled(s, dbOk, t) ==
  /\ shops' = appUninstalled(shops, s, dbOk, t)
  /\ UNCHANGED <<sessions, session, wvars, response, pvars>>

ShopRedact(s, fault) ==
  /\ LET r == shopRedact(shops, sessions, s, fault)
     IN  /\ shops' = r.shops
         /\ sessions' = r.sessions
         /\ deliveries' = cascadeDeliveries(deliveries, r.shops)
  /\ UNCHANGED <<session, wvars, response, jobs, holding>>

Next ==
  \/ \E s \in Tenants : \E n \in TokenIdsOf(s) : NewSession(s, n)
  \/ \E f \in {"none", "session", "shop"} : StoreSession(f)
  \/ \E s \in Tenants : LoadSession(s)
  \/ \E e \in {"ok", "register", "noshop", "db"} : AfterAuth(e)
  \/ \E s \in Tenants : \E n \in TokenIdsOf(s) : Install(s, n)
  \/ \E s \in Tenants, ok \in BOOLEAN, t \in Times : AppUninstalled(s, ok, t)
  \/ \E s \in Tenants, f \in {"none", "shop", "session"} : ShopRedact(s, f)

Spec == Init /\ [][Next]_vars

\* ------------------------------------------------------- the /healthz route
\* the awaited calls of the loader, in order; "none": none of them rejects
HealthzSteps ==
  {"none", "queryRaw", "ping", "quit", "shopCount", "sessionCount"}

\* (mutant) a Redis failure is not reported
loader_IgnoresRedis(sh, se, failsAt) ==
  IF failsAt \in {"none", "ping", "quit"}
  THEN [code |-> 200, status |-> "healthy",
        metrics |-> <<Cardinality({s \in DOMAIN sh : sh[s].isActive}),
                      Cardinality(DOMAIN se)>>]
  ELSE [code |-> 503, status |-> "unhealthy", metrics |-> <<>>]

\* loader: the response; the try block answers 200 after every awaited
\* call resolved, the catch block answers 503 for whichever rejected
loader(sh, se, failsAt) ==
  IF failsAt = "none"
  THEN [code |-> 200, status |-> "healthy",
        metrics |-> <<Cardinality({s \in DOMAIN sh : sh[s].isActive}),
                      Cardinality(DOMAIN se)>>]
  ELSE [code |-> 503, status |-> "unhealthy", metrics |-> <<>>]

\* a GET /healthz is served
Healthz(failsAt) ==
  /\ response' = loader(shops, sessions, failsAt)
  /\ UNCHANGED <<rvars, wvars, pvars>>

HealthzNext ==
  \/ Next
  \/ \E f \in HealthzSteps : Healthz(f)

HealthzSpec == Init /\ [][HealthzNext]_vars

\* ------------------------------------------------------------ the worker
ShutdownTimeoutMs == 30000
PollDelayMs == 1000
FailedThreshold == 10

Alive == exitCode = -1
Awaiting == {"pauseWebhook", "pauseGeneral", "activeWebhook", "activeGeneral",
             "closeWebhook", "closeGeneral"}

\* (await queue.active()).length for a lane with n active jobs
ActiveLength(kind, n) == IF kind = "list" THEN Num(n) ELSE NaN
JsPlus(a, b) == IF a.def /\ b.def THEN Num(a.v + b.v) ELSE NaN
JsGreater(a, n) == a.def /\ a.v > n

\* lib/queue.server.js: a producer adds a job to a lane
Enqueue(l) ==
  /\ Alive
  /\ waiting[l] < MaxJobs
  /\ waiting' = [waiting EXCEPT ![l] = @ + 1]
  /\ UNCHANGED <<rvars, pvars, response, health, isShuttingDown, trigger, wpc, timerArmed, elapsed, wake,
                 wRead, exitCode, paused, active, activeKind>>

\* lib/queue.server.js: the lane's processor claims a waiting job
Claim(l) ==
  /\ Alive
  /\ ~paused[l]
  /\ waiting[l] > 0
  /\ active[l] < MaxJobs
  /\ waiting' = [waiting EXCEPT ![l] = @ - 1]
  /\ active' = [active EXCEPT ![l] = @ + 1]
  /\ UNCHANGED <<rvars, pvars, response, health, isShuttingDown, trigger, wpc, timerArmed, elapsed, wake,
                 wRead, exitCode, paused, activeKind>>

\* lib/queue.server.js: an active job completes or fails
Finish(l) ==
  /\ Alive
  /\ active[l] > 0
  /\ active' = [active EXCEPT ![l] = @ - 1]
  /\ UNCHANGED <<rvars, pvars, response, health, isShuttingDown, trigger, wpc, timerArmed, elapsed, wake,
                 wRead, exitCode, paused, waiting, activeKind>>

\* (mutant) a second trigger runs the sequence again
Trigger_Rerun(sig) ==
  /\ Alive
  /\ isShuttingDown' = TRUE
  /\ trigger' = IF sig \in Faults THEN "fault" ELSE "signal"
  /\ wpc' = "pauseWebhook"
  /\ UNCHANGED <<rvars, pvars, response, health, timerArmed, elapsed, wake, wRead, exitCode, paused,
                 waiting, active, activeKind>>

\* process.on(sig, ...) -> gracefulShutdown(sig), up to the first await
Trigger(sig) ==
  /\ Alive
  /\ IF isShuttingDown
     THEN /\ exitCode' = 1
          /\ UNCHANGED <<isShuttingDown, trigger, wpc>>
     ELSE /\ isShuttingDown' = TRUE
          /\ trigger' = IF sig \in Faults THEN "fault" ELSE "signal"
          /\ wpc' = "pauseWebhook"
          /\ UNCHANGED exitCode
  /\ UNCHANGED <<rvars, pvars, response, health, timerArmed, elapsed, wake, wRead, paused, waiting,
                 active, activeKind>>

\* (mutant) the webhook lane is not paused
PauseWebhookReturns_NoPause ==
  /\ Alive /\ wpc = "pauseWebhook"
  /\ wpc' = "pauseGeneral"
  /\ UNCHANGED <<rvars, pvars, response, health, isShuttingDown, trigger, timerArmed, elapsed, wake,
                 wRead, exitCode, paused, waiting, active, activeKind>>

\* await webhookQueue.pause() resolves
PauseWebhookReturns ==
  /\ Alive /\ wpc = "pauseWebhook"
  /\ paused' = [paused EXCEPT !["webhook"] = TRUE]
  /\ wpc' = "pauseGeneral"
  /\ UNCHANGED <<rvars, pvars, response, health, isShuttingDown, trigger, timerArmed, elapsed, wake,
                 wRead, exitCode, waiting, active, activeKind>>

\* (mutant) no shutdown timeout is set
PauseGeneralReturns_NoTimer ==
  /\ Alive /\ wpc = "pauseGeneral"
  /\ paused' = [paused EXCEPT !["general"] = TRUE]
  /\ wpc' = "activeWebhook"
  /\ UNCHANGED <<rvars, pvars, response, health, isShuttingDown, trigger, timerArmed, elapsed, wake,
                 wRead, exitCode, waiting, active, activeKind>>

\* await generalQueue.pause() resolves; setTimeout(..., 30000); the first
\* webhookQueue.active() is called
PauseGeneralReturns ==
  /\ Alive /\ wpc = "pauseGeneral"
  /\ paused' = [paused EXCEPT !["general"] = TRUE]
  /\ timerArmed' = TRUE
  /\ elapsed' = 0
  /\ wpc' = "activeWebhook"
  /\ UNCHANGED <<rvars, pvars, response, health, isShuttingDown, trigger, wake, wRead, exitCode,
                 waiting, active, activeKind>>

\* await webhookQueue.active() resolves
ActiveWebhookReturns ==
  /\ Alive /\ wpc = "activeWebhook"
  /\ wRead' = ActiveLength(activeKind, active["webhook"])
  /\ wpc' = "activeGeneral"
  /\ UNCHANGED <<rvars, pvars, response, health, isShuttingDown, trigger, timerArmed, elapsed, wake,
                 exitCode, paused, waiting, active, activeKind>>

\* await generalQueue.active() resolves: activeJobs is computed and the
\* loop either waits 1000 ms or ends, clears the timeout and calls close()
ActiveGeneralReturns ==
  /\ Alive /\ wpc = "activeGeneral"
  /\ LET activeJobs == JsPlus(wRead, ActiveLength(activeKind, active["general"]))
     IN  IF JsGreater(activeJobs, 0)
         THEN /\ wpc' = "sleep"
              /\ wake' = elapsed + PollDelayMs
              /\ UNCHANGED timerArmed
         ELSE /\ wpc' = "closeWebhook"
              /\ timerArmed' = FALSE
              /\ UNCHANGED wake
  /\ wRead' = NaN
  /\ UNCHANGED <<rvars, pvars, response, health, isShuttingDown, trigger, elapsed, exitCode, paused,
                 waiting, active, activeKind>>

\* the 1000 ms delay is over: next round of the do-while loop
Wake ==
  /\ Alive /\ wpc = "sleep" /\ elapsed >= wake
  /\ wpc' = "activeWebhook"
  /\ UNCHANGED <<rvars, pvars, response, health, isShuttingDown, trigger, timerArmed, elapsed, wake,
                 wRead, exitCode, paused, waiting, active, activeKind>>

\* await webhookQueue.close() resolves
CloseWebhookReturns ==
  /\ Alive /\ wpc = "closeWebhook"
  /\ wpc' = "closeGeneral"
  /\ UNCHANGED <<rvars, pvars, response, health, isShuttingDown, trigger, timerArmed, elapsed, wake,
                 wRead, exitCode, paused, waiting, active, activeKind>>

\* await generalQueue.close() resolves; process.exit(0)
CloseGeneralReturns ==
  /\ Alive /\ wpc = "closeGeneral"
  /\ exitCode' = 0
  /\ UNCHANGED <<rvars, pvars, response, health, isShuttingDown, trigger, wpc, timerArmed, elapsed, wake,
                 wRead, paused, waiting, active, activeKind>>

\* an awaited queue call rejects: catch, process.exit(1)
CallThrows ==
  /\ Alive /\ wpc \in Awaiting
  /\ exitCode' = 1
  /\ UNCHANGED <<rvars, pvars, response, health, isShuttingDown, trigger, wpc, timerArmed, elapsed, wake,
                 wRead, paused, waiting, active, activeKind>>

\* an awaited queue call never settles
CallHangs ==
  /\ Alive /\ wpc \in Awaiting
  /\ wpc' = CASE wpc \in {"pauseWebhook", "pauseGeneral"}   -> "hungPause"
              [] wpc \in {"activeWebhook", "activeGeneral"} -> "hungActive"
              [] OTHER                                      -> "hungClose"
  /\ UNCHANGED <<rvars, pvars, response, health, isShuttingDown, trigger, timerArmed, elapsed, wake,
                 wRead, exitCode, paused, waiting, active, activeKind>>

\* the shutdown timeout fires: process.exit(1)
TimeoutFires ==
  /\ Alive /\ timerArmed /\ elapsed >= ShutdownTimeoutMs
  /\ exitCode' = 1
  /\ UNCHANGED <<rvars, pvars, response, health, isShuttingDown, trigger, wpc, timerArmed, elapsed, wake,
                 wRead, paused, waiting, active, activeKind>>

\* time passes while the shutdown timeout is pending; a timer that is due
\* fires before time moves on
Tick ==
  /\ Alive /\ timerArmed
  /\ elapsed < ShutdownTimeoutMs
  /\ ~(wpc = "sleep" /\ elapsed >= wake)
  /\ elapsed' = elapsed + PollDelayMs
  /\ UNCHANGED <<rvars, pvars, response, health, isShuttingDown, trigger, wpc, timerArmed, wake, wRead,
                 exitCode, paused, waiting, active, activeKind>>

CallSettles ==
  \/ PauseWebhookReturns
  \/ PauseGeneralReturns
  \/ ActiveWebhookReturns
  \/ ActiveGeneralReturns
  \/ CloseWebhookReturns
  \/ CloseGeneralReturns
  \/ CallThrows
  \/ CallHangs

WorkerNext ==
  \/ \E l \in Lanes : Enqueue(l)
  \/ \E l \in Lanes : Claim(l)
  \/ \E l \in Lanes : Finish(l)
  \/ \E sig \in Signals \cup Faults : Trigger(sig)
  \/ CallSettles
  \/ Wake
  \/ TimeoutFires
  \/ Tick

\* (mutant) a failed health query ends the process
HealthTick_ExitOnError(webhookFailed, throws) ==
  /\ Alive
  /\ health' = IF throws THEN [NoReport EXCEPT !.level = "error"]
               ELSE [level |-> IF webhookFailed > FailedThreshold
                               THEN "warn" ELSE "info",
                     lanes |-> HealthFields]
  /\ exitCode' = IF throws THEN 1 ELSE exitCode
  /\ UNCHANGED <<rvars, pvars, response, isShuttingDown, trigger, wpc, timerArmed,
                 elapsed, wake, wRead, paused, waiting, active,
                 activeKind>>

\* one run of the setInterval callback of startWorker: the five queries,
\* the report and the warning, or the error line when a query threw.
\* webhookFailed is what webhookQueue.failed() resolved to.
HealthTick(webhookFailed, throws) ==
  /\ Alive
  /\ health' = IF throws THEN [NoReport EXCEPT !.level = "error"]
               ELSE [level |-> IF webhookFailed > FailedThreshold
                               THEN "warn" ELSE "info",
                     lanes |-> HealthFields]
  /\ UNCHANGED <<rvars, pvars, response, isShuttingDown, trigger, wpc, timerArmed,
                 elapsed, wake, wRead, exitCode, paused, waiting, active,
                 activeKind>>

WorkerStart ==
  /\ RegistryInit
  /\ WorkerInit
  /\ PipelineInit
  /\ activeKind \in {"list", "count"}
  /\ response = NoResponse

WorkerSpec == WorkerStart /\ [][WorkerNext]_vars

\* the worker with its health monitor
MonitorNext ==
  \/ WorkerNext
  \/ \E f \in {0, FailedThreshold, FailedThreshold + 1}, th \in BOOLEAN :
       HealthTick(f, th)

MonitorSpec == WorkerStart /\ [][MonitorNext]_vars

\* the event loop runs every continuation and timer that is ready, and
\* time passes
FairWorkerSpec ==
  /\ WorkerSpec
  /\ WF_vars(CallSettles)
  /\ WF_vars(Wake)
  /\ WF_vars(TimeoutFires)
  /\ WF_vars(Tick)

\* ------------------------------------------- the ledger and the job table
MaxRecords == 2       \* accept() is called at most MaxRecords times
MaxTasks == 1         \* at most MaxTasks general-lane jobs are enqueued
DefaultMaxAttempts == 3

\* the topics with a callback in the webhooks table, and one without
RegisteredTopics == {"app/uninstalled", "shop/redact", "customers/redact"}
UnknownTopic == "orders/create"
Topics == RegisteredTopics \cup {UnknownTopic}
\* the events that are delivered: <<tenant, topic, signatureValid>>
EventInputs ==
  ({"a.example"} \X Topics \X {TRUE})
    \cup ({"b.example"} \X {"app/uninstalled", "shop/redact"} \X {TRUE})
    \cup {<<"a.example", "app/uninstalled", FALSE>>}
TaskType == "task"
RecordIds == 1 .. MaxRecords
\* the webhook job of record r has id r; general-lane jobs follow
TaskIds == (MaxRecords + 1) .. (MaxRecords + MaxTasks)
LaneOf(type) == IF type \in Topics THEN "webhook" ELSE "general"

\* a queue_jobs row as enqueue leaves it; trail is the list of the states
\* the job went through
NewJob(type, s, maxAttempts) ==
  [type |-> type, shop |-> s, status |-> "PENDING", attempts |-> 0,
   max_attempts |-> maxAttempts, scheduled_for |-> "now",
   trail |-> <<"pending">>]

\* (mutant) a job is enqueued whatever the signature check said
accept_AlwaysEnqueue(sh, dl, jb, id, s, topic, signatureValid) ==
  IF ~FkDeliveryOk(sh, s)
  THEN [deliveries |-> dl, jobs |-> jb, ret |-> 0]
  ELSE [deliveries |-> Put(dl, id, [shop |-> s, topic |-> topic,
                                    hmac_valid |-> signatureValid,
                                    status |-> "PENDING", processed_at |-> 0,
                                    job_id |-> id]),
        jobs |-> Put(jb, id, NewJob(topic, s, DefaultMaxAttempts)),
        ret |-> id]

\* Dispatcher accept(): the ledger insert and, for a valid signature, the
\* enqueue, in one transaction; the insert fails on
\* webhook_deliveries_shop_fkey.  ret is the record id, 0 for a failed call.
accept(sh, dl, jb, id, s, topic, signatureValid) ==
  IF ~FkDeliveryOk(sh, s)
  THEN [deliveries |-> dl, jobs |-> jb, ret |-> 0]
  ELSE IF signatureValid
  THEN [deliveries |-> Put(dl, id, [shop |-> s, topic |-> topic,
                                    hmac_valid |-> TRUE,
                                    status |-> "PENDING", processed_at |-> 0,
                                    job_id |-> id]),
        jobs |-> Put(jb, id, NewJob(topic, s, DefaultMaxAttempts)),
        ret |-> id]
  ELSE [deliveries |-> Put(dl, id, [shop |-> s, topic |-> topic,
                                    hmac_valid |-> FALSE,
                                    status |-> "FAILED", processed_at |-> 0,
                                    job_id |-> 0]),
        jobs |-> jb,
        ret |-> id]

\* (mutant) a failure of the enqueue leaves the inserted record behind
acceptTx_NoRollback(sh, dl, jb, id, s, topic, signatureValid, fault) ==
  LET r == accept(sh, dl, jb, id, s, topic, signatureValid)
  IN  IF fault = "none" THEN r
      ELSE [deliveries |-> r.deliveries, jobs |-> jb, ret |-> 0]

\* accept() with its store fault: "enqueue" is a failure after the ledger
\* insert; the transaction rolls back and nothing of the call is visible
acceptTx(sh, dl, jb, id, s, topic, signatureValid, fault) ==
  IF fault = "none"
  THEN accept(sh, dl, jb, id, s, topic, signatureValid)
  ELSE [deliveries |-> dl, jobs |-> jb, ret |-> 0]

\* (mutant) the claim does not test the status it replaces
Claimable_NoCompareAndSet(jb, j) ==
  /\ j \in DOMAIN jb
  /\ jb[j].status \in {"PENDING", "RUNNING"}
  /\ jb[j].scheduled_for = "now"

\* dequeueNext: the jobs a poller can claim, pending and due
Claimable(jb, j) ==
  /\ j \in DOMAIN jb
  /\ jb[j].status = "PENDING"
  /\ jb[j].scheduled_for = "now"

\* the status transition pending -> running of the claim
claimJob(jb, j) ==
  Put(jb, j, [jb[j] EXCEPT !.status = "RUNNING",
                           !.attempts = @ + 1,
                           !.trail = Append(@, "running")])

complete(jb, j) ==
  Put(jb, j, [jb[j] EXCEPT !.status = "COMPLETED",
                           !.trail = Append(@, "completed")])

\* (mutant) fail reschedules whatever the attempt count
fail_AlwaysRetry(jb, j) ==
  Put(jb, j, [jb[j] EXCEPT !.status = "PENDING",
                           !.scheduled_for = "later",
                           !.trail = Append(@, "retry")])

\* (mutant) fail compares with <= and grants one more attempt
fail_OneMore(jb, j) ==
  IF jb[j].attempts <= jb[j].max_attempts
  THEN Put(jb, j, [jb[j] EXCEPT !.status = "PENDING",
                                !.scheduled_for = "later",
                                !.trail = Append(@, "retry")])
  ELSE Put(jb, j, [jb[j] EXCEPT !.status = "FAILED",
                                !.trail = Append(@, "failed")])

\* fail: a retry after a backoff delay while attempts < maxAttempts, else
\* the terminal status
fail(jb, j) ==
  IF jb[j].attempts < jb[j].max_attempts
  THEN Put(jb, j, [jb[j] EXCEPT !.status = "PENDING",
                                !.scheduled_for = "later",
                                !.trail = Append(@, "retry")])
  ELSE Put(jb, j, [jb[j] EXCEPT !.status = "FAILED",
                                !.trail = Append(@, "failed")])

\* the ledger row of a job follows the job
setDeliveryStatus(dl, id, st) ==
  IF id \in DOMAIN dl
  THEN Put(dl, id, [dl[id] EXCEPT
             !.status = st,
             !.processed_at = IF st = "SUCCESS" THEN 1 ELSE @])
  ELSE dl

\* (mutant) the ledger update of a completed job is left out
deliveryStatusOf_NoSuccess(job) ==
  CASE job.status = "FAILED"    -> "FAILED"
    [] job.status = "PENDING"   -> "RETRY"
    [] OTHER                    -> "PROCESSING"

deliveryStatusOf(job) ==
  CASE job.status = "COMPLETED" -> "SUCCESS"
    [] job.status = "FAILED"    -> "FAILED"
    [] job.status = "RUNNING"   -> "PROCESSING"
    [] OTHER                    -> "RETRY"

\* (mutant) a topic without a handler is treated as a handler failure
handlerOutcome_UnknownRejected(type, env) ==
  IF type \in RegisteredTopics THEN "resolved"
  ELSE IF type = UnknownTopic \/ env = "fail" THEN "rejected" ELSE "resolved"

\* What the poll loop sees of a handler: "rejected" when the handler threw.
\* env = "fail": a store operation inside a webhook callback threw, or the
\* handler of a general-lane job threw.  The APP_UNINSTALLED and SHOP_REDACT
\* callbacks catch and log every error of their store operations, the
\* CUSTOMERS_REDACT callback only logs, and a topic without a handler is
\* acknowledged.
handlerOutcome(type, env) ==
  IF type \in Topics THEN "resolved"
  ELSE IF env = "fail" THEN "rejected" ELSE "resolved"

\* (mutant) shop/redact also cancels the tenant's pending jobs
handlerEffect_CancelJobs(sh, se, dl, jb, type, s, env, t) ==
  CASE type = "app/uninstalled" ->
         [shops |-> appUninstalled(sh, s, env = "ok", t),
          sessions |-> se, deliveries |-> dl, jobs |-> jb]
    [] type = "shop/redact" ->
         LET r == shopRedact(sh, se, s, IF env = "ok" THEN "none" ELSE "shop")
         IN  [shops |-> r.shops, sessions |-> r.sessions,
              deliveries |-> cascadeDeliveries(dl, r.shops),
              jobs |-> [j \in DOMAIN jb |->
                          IF jb[j].shop = s /\ jb[j].status = "PENDING"
                          THEN [jb[j] EXCEPT !.status = "CANCELLED"]
                          ELSE jb[j]]]
    [] OTHER -> [shops |-> sh, sessions |-> se, deliveries |-> dl, jobs |-> jb]

\* (mutant) customers/redact removes the tenant's sessions when its store
\* operation fails half way
handlerEffect_PartialErase(sh, se, dl, jb, type, s, env, t) ==
  CASE type = "app/uninstalled" ->
         [shops |-> appUninstalled(sh, s, env = "ok", t),
          sessions |-> se, deliveries |-> dl, jobs |-> jb]
    [] type = "shop/redact" ->
         LET r == shopRedact(sh, se, s, IF env = "ok" THEN "none" ELSE "shop")
         IN  [shops |-> r.shops, sessions |-> r.sessions,
              deliveries |-> cascadeDeliveries(dl, r.shops), jobs |-> jb]
    [] type = "customers/redact" /\ env = "fail" ->
         [shops |-> sh, sessions |-> Drop(se, {id \in DOMAIN se : se[id].shop = s}),
          deliveries |-> dl, jobs |-> jb]
    [] OTHER -> [shops |-> sh, sessions |-> se, deliveries |-> dl, jobs |-> jb]

\* the tables after the handler of a job of this type ran for tenant s;
\* queue_jobs has no foreign key, no callback writes to it
handlerEffect(sh, se, dl, jb, type, s, env, t) ==
  CASE type = "app/uninstalled" ->
         [shops |-> appUninstalled(sh, s, env = "ok", t),
          sessions |-> se, deliveries |-> dl, jobs |-> jb]
    [] type = "shop/redact" ->
         LET r == shopRedact(sh, se, s, IF env = "ok" THEN "none" ELSE "shop")
         IN  [shops |-> r.shops, sessions |-> r.sessions,
              deliveries |-> cascadeDeliveries(dl, r.shops), jobs |-> jb]
    [] OTHER -> [shops |-> sh, sessions |-> se, deliveries |-> dl, jobs |-> jb]

\* an inbound event reaches the dispatcher
Accept(id, s, topic, signatureValid, fault) ==
  /\ id \notin DOMAIN deliveries
  /\ id \notin DOMAIN jobs
  /\ \A x \in RecordIds : x < id => x \in DOMAIN jobs \cup DOMAIN deliveries
  /\ LET r == acceptTx(shops, deliveries, jobs, id, s, topic, signatureValid,
                       fault)
     IN  /\ deliveries' = r.deliveries
         /\ jobs' = r.jobs
  /\ UNCHANGED <<rvars, wvars, response, holding>>

\* a producer enqueues a general-lane job
EnqueueTask(id, maxAttempts) ==
  /\ id \notin DOMAIN jobs
  /\ jobs' = Put(jobs, id, NewJob(TaskType, "none", maxAttempts))
  /\ UNCHANGED <<rvars, wvars, response, deliveries, holding>>

\* poller w claims job j
DequeueNext(w, j) ==
  /\ holding[w] = 0
  /\ Claimable(jobs, j)
  /\ jobs' = claimJob(jobs, j)
  /\ deliveries' = setDeliveryStatus(deliveries, j, "PROCESSING")
  /\ holding' = [holding EXCEPT ![w] = j]
  /\ UNCHANGED <<rvars, wvars, response>>

\* poller w runs the handler of the job it holds, then complete or fail and
\* the ledger update
Process(w, env) ==
  /\ holding[w] # 0
  /\ LET j == holding[w]
         job == jobs[j]
         e == handlerEffect(shops, sessions, deliveries, jobs, job.type,
                            job.shop, env, 1)
         jb == IF handlerOutcome(job.type, env) = "resolved"
               THEN complete(e.jobs, j) ELSE fail(e.jobs, j)
     IN  /\ shops' = e.shops
         /\ sessions' = e.sessions
         /\ jobs' = jb
         /\ deliveries' = setDeliveryStatus(e.deliveries, j,
                                            deliveryStatusOf(jb[j]))
  /\ holding' = [holding EXCEPT ![w] = 0]
  /\ UNCHANGED <<session, wvars, response>>

\* the backoff delay of a rescheduled job is over
BackoffElapses(j) ==
  /\ j \in DOMAIN jobs
  /\ jobs[j].status = "PENDING"
  /\ jobs[j].scheduled_for = "later"
  /\ jobs' = Put(jobs, j, [jobs[j] EXCEPT !.scheduled_for = "now"])
  /\ UNCHANGED <<rvars, wvars, response, deliveries, holding>>

PipelineNext ==
  \/ \E s \in Tenants : Install(s, 1)
  \/ \E id \in RecordIds, ev \in EventInputs, f \in {"none", "enqueue"} :
       Accept(id, ev[1], ev[2], ev[3], f)
  \/ \E id \in TaskIds, m \in {1, DefaultMaxAttempts} : EnqueueTask(id, m)
  \/ \E w \in Pollers : \E j \in RecordIds \cup TaskIds : DequeueNext(w, j)
  \/ \E w \in Pollers, env \in {"ok", "fail"} : Process(w, env)
  \/ \E j \in RecordIds \cup TaskIds : BackoffElapses(j)

PipelineSpec == Init /\ [][PipelineNext]_vars

\* the pollers keep polling and executing, and backoff delays end
FairPipelineSpec ==
  /\ PipelineSpec
  /\ WF_vars(\E w \in Pollers : \E j \in RecordIds \cup TaskIds : DequeueNext(w, j))
  /\ WF_vars(\E w \in Pollers, env \in {"ok", "fail"} : Process(w, env))
  /\ WF_vars(\E j \in RecordIds \cup TaskIds : BackoffElapses(j))

\* ---------------------------------------------------------------- views
\* the pollers executing job j, and the handler invocations j had
HoldersOf(j) == {w \in Pollers : holding[w] = j}
Runs(job) == Cardinality({i \in DOMAIN job.trail : job.trail[i] = "running"})
\* the id the next accept() call gives its record
FreeRecordIds ==
  {id \in RecordIds :
     /\ id \notin DOMAIN deliveries \cup DOMAIN jobs
     /\ \A x \in RecordIds : x < id => x \in DOMAIN deliveries \cup DOMAIN jobs}
\* gracefulShutdown is past `await <lane>Queue.pause()`
PauseReturned(l) ==
  \/ wpc \in {"activeWebhook", "activeGeneral", "sleep", "closeWebhook",
              "closeGeneral", "hungActive", "hungClose"}
  \/ l = "webhook" /\ wpc = "pauseGeneral"
HasShop(s) == s \in DOMAIN shops
SessionIdsOf(se, s) == {id \in DOMAIN se : se[id].shop = s}
\* what a lifecycle handler decides for tenant s: the existence of the
\* shop row, isActive, the credential, and the session rows
LifecycleView(sh, se, s) ==
  [row |-> IF s \in DOMAIN sh
           THEN <<sh[s].isActive, sh[s].accessTokenEncrypted>> ELSE <<>>,
   sess |-> SessionIdsOf(se, s)]
\* what the store holds for tenant s
TenantView(sh, se, s) ==
  [row |-> IF s \in DOMAIN sh THEN <<sh[s]>> ELSE <<>>,
   sess |-> [id \in SessionIdsOf(se, s) |-> se[id]]]

\* ---------------------------------------------------------------- C1
\* C1 (as claimed): a reinstall (storeSession, then afterAuth, with a new
\* token) of a tenant that was installed and then uninstalled leaves the
\* row active, uninstalledAt NULL and a credential that one decryptToken
\* call turns into the new plaintext token.
C1_Reinstall ==
  [][\A s \in Tenants : \A n \in TokenIdsOf(s) :
       ( /\ HasShop(s)
         /\ ~shops[s].isActive
         /\ shops[s].uninstalledAt # 0
         /\ Install(s, n) )
       => /\ s \in DOMAIN shops'
          /\ shops'[s].isActive
          /\ shops'[s].uninstalledAt = 0
          /\ CanDecrypt(shops'[s].accessTokenEncrypted)
          /\ decryptToken(shops'[s].accessTokenEncrypted) = Plain(s, n)]_vars

\* ---------------------------------------------------------------- C2
\* C2 (as claimed): once shop/redact has run for a tenant with an active
\* shop row, no shop row and no session row is left for that tenant.
C2_RedactRemovesAll ==
  \A s \in Tenants :
    (HasShop(s) /\ shops[s].isActive)
    => LET r == shopRedact(shops, sessions, s, "none")
       IN  s \notin DOMAIN r.shops /\ SessionIdsOf(r.sessions, s) = {}

\* ---------------------------------------------------------------- C3
\* C3: app/uninstalled for an existing tenant sets isActive = FALSE and
\* uninstalledAt = the current time and leaves the rest of the row, the
\* credential and every session row in place; a shop row goes away only in
\* a shop/redact step.
C3_UninstallFrame ==
  [][/\ \A s \in Tenants, t \in Times :
          (HasShop(s) /\ AppUninstalled(s, TRUE, t))
          => /\ s \in DOMAIN shops'
             /\ shops'[s].isActive = FALSE
             /\ shops'[s].uninstalledAt = t
             /\ shops'[s].accessTokenEncrypted = shops[s].accessTokenEncrypted
             /\ shops'[s].name = shops[s].name
             /\ DOMAIN shops' = DOMAIN shops
             /\ sessions' = sessions
     /\ \A s \in Tenants :
          (HasShop(s) /\ s \notin DOMAIN shops')
          => \E f \in {"none", "session"} : ShopRedact(s, f)]_vars

C3_Witness ==
  \E s \in Tenants :
    /\ HasShop(s)
    /\ ~shops[s].isActive
    /\ shops[s].uninstalledAt \in Times
    /\ shops[s].accessTokenEncrypted # NoToken
    /\ SessionIdsOf(sessions, s) # {}

\* ---------------------------------------------------------------- C4
\* C4: an active shop row always holds a credential.
C4_ActiveHasCredential ==
  \A s \in DOMAIN shops :
    shops[s].isActive => shops[s].accessTokenEncrypted # NoToken

\* an active row that was uninstalled before (storeSession re-activated it)
C4_Witness ==
  \E s \in DOMAIN shops :
    /\ shops[s].isActive
    /\ shops[s].uninstalledAt # 0
    /\ shops[s].accessTokenEncrypted # NoToken

\* ---------------------------------------------------------------- C5
\* C5: every token value in the sessions table and in the shops table is
\* an output of encryptToken; no plaintext token is stored.
C5_OnlyCiphertextStored ==
  /\ \A id \in DOMAIN sessions : sessions[id].access_token.layers >= 1
  /\ \A s \in DOMAIN shops : shops[s].accessTokenEncrypted.layers >= 1

C5_Witness ==
  \E s \in DOMAIN shops : \E id \in DOMAIN sessions :
    /\ sessions[id].shop = s
    /\ sessions[id].access_token.layers = 1
    /\ shops[s].accessTokenEncrypted.layers = 1

\* ---------------------------------------------------------------- C6
\* C6 (as claimed): storeSession(session) followed by loadSession of its id
\* returns a Session carrying the token the caller's session had.
C6_StoreThenLoad ==
  [][(session # NoSession /\ StoreSession("none"))
       => loadSession(sessions', SessionId(session)).accessToken
            = session.accessToken]_vars

\* ---------------------------------------------------------------- C7
\* C7 (as claimed): no read path returns a token of a tenant whose shop row
\* is inactive or has no credential.
C7_NoReadWhenInactive ==
  \A id \in DOMAIN sessions :
    LET s == sessions[id].shop
    IN  (~HasShop(s) \/ ~shops[s].isActive
           \/ shops[s].accessTokenEncrypted = NoToken)
        => loadSession(sessions, id) = NoSession

\* ---------------------------------------------------------------- C8
\* the tenant a step operates for
OpOn(s) ==
  \/ session.shop = s /\ \E f \in {"none", "session", "shop"} : StoreSession(f)
  \/ session.shop = s /\ \E e \in {"ok", "register", "noshop", "db"} : AfterAuth(e)
  \/ \E n \in TokenIdsOf(s) : Install(s, n)
  \/ \E ok \in BOOLEAN, t \in Times : AppUninstalled(s, ok, t)
  \/ \E f \in {"none", "shop", "session"} : ShopRedact(s, f)

\* C8: a step changes the shop row, credential or sessions of a tenant only
\* if it is a lifecycle operation for that tenant, and every stored
\* credential was issued for the tenant whose row holds it.
C8_TenantIsolation ==
  /\ [][\A b \in Tenants :
          TenantView(shops', sessions', b) # TenantView(shops, sessions, b)
          => OpOn(b)]_vars
  /\ [](/\ \A s \in DOMAIN shops : shops[s].accessTokenEncrypted.shop = s
        /\ \A id \in DOMAIN sessions :
             /\ sessions[id].shop = id
             /\ sessions[id].access_token.shop = id)

\* both tenants hold a row, a credential and a session at the same time
C8_Witness ==
  \A s \in Tenants :
    /\ HasShop(s)
    /\ shops[s].accessTokenEncrypted.shop = s
    /\ SessionIdsOf(sessions, s) # {}

\* ---------------------------------------------------------------- C9
\* C9 (as claimed): the process exits with code 0 only when both lanes are
\* paused and no job is active in either lane.
C9_CleanExitDrained ==
  exitCode = 0
  => /\ \A l \in Lanes : paused[l]
     /\ \A l \in Lanes : active[l] = 0

C11_ForcedExitIsOne ==
  [][/\ (TimeoutFires \/ CallThrows) => exitCode' = 1
     /\ (isShuttingDown /\ \E sig \in Signals \cup Faults : Trigger(sig))
          => (exitCode' = 1 /\ UNCHANGED <<wpc, paused, timerArmed>>)
     /\ exitCode # -1 => exitCode' = exitCode]_vars

\* exit 1 in the poll delay, at the timeout, with a job still active
C11_Witness ==
  /\ exitCode = 1
  /\ wpc = "sleep"
  /\ timerArmed
  /\ elapsed = ShutdownTimeoutMs
  /\ \E l \in Lanes : active[l] > 0

\* ---------------------------------------------------------------- C12
\* C12 (as claimed): a shutdown triggered by uncaughtException or
\* unhandledRejection never ends with exit code 0.
C12_FaultExitsOne ==
  trigger = "fault" => exitCode # 0

C14_ClaimedByOne ==
  /\ \A j \in DOMAIN jobs :
       /\ Cardinality(HoldersOf(j)) <= 1
       /\ jobs[j].status = "RUNNING" <=> HoldersOf(j) # {}
       /\ (jobs[j].status = "COMPLETED"
            /\ \A i \in DOMAIN jobs[j].trail : jobs[j].trail[i] # "retry")
           => Runs(jobs[j]) = 1
  /\ \A w \in Pollers : holding[w] # 0 => holding[w] \in DOMAIN jobs

\* both pollers execute at the same time, next to a completed job
C14_Witness ==
  /\ \A w \in Pollers : holding[w] # 0
  /\ \E j \in DOMAIN jobs : jobs[j].status = "COMPLETED"

\* ---------------------------------------------------------------- C15
\* C15: a job with maxAttempts = 3 that reached failed went through
\* pending, running, retry, running, retry, running, failed and nothing
\* else; a failed job is never claimed or changed again.
C15_ThreeRunsThenFailed ==
  /\ [](\A j \in DOMAIN jobs :
          (jobs[j].max_attempts = 3 /\ jobs[j].status = "FAILED")
          => jobs[j].trail = <<"pending", "running", "retry", "running",
                               "retry", "running", "failed">>)
  /\ [][\A j \in DOMAIN jobs :
          jobs[j].status = "FAILED"
          => /\ j \in DOMAIN jobs'
             /\ jobs'[j] = jobs[j]
             /\ \A w \in Pollers : holding'[w] # j]_vars

\* a terminally failed job with maxAttempts = 3 while a poller is idle and
\* another job runs
C15_Witness ==
  /\ \E j \in DOMAIN jobs :
       jobs[j].max_attempts = 3 /\ jobs[j].status = "FAILED"
  /\ \E w \in Pollers : holding[w] = 0
  /\ \E w \in Pollers : holding[w] # 0

\* ---------------------------------------------------------------- C16
\* C16: every job has attempts <= maxAttempts; a job that is not pending
\* becomes pending only in the retry branch of fail, taken by the poller
\* that holds it while attempts < maxAttempts; a failed job never does.
C16_AttemptsBounded ==
  /\ [](\A j \in DOMAIN jobs : jobs[j].attempts <= jobs[j].max_attempts)
  /\ [][\A j \in DOMAIN jobs :
          (j \in DOMAIN jobs' /\ jobs[j].status # "PENDING"
             /\ jobs'[j].status = "PENDING")
          => /\ jobs[j].status = "RUNNING"
             /\ jobs[j].attempts < jobs[j].max_attempts
             /\ jobs'[j] = fail(jobs, j)[j]
             /\ \E w \in HoldersOf(j) : Process(w, "fail")]_vars

\* a job rescheduled after its second failed attempt
C16_Witness ==
  \E j \in DOMAIN jobs :
    /\ jobs[j].status = "PENDING"
    /\ jobs[j].scheduled_for = "later"
    /\ jobs[j].attempts = 2
    /\ jobs[j].max_attempts = DefaultMaxAttempts

\* ---------------------------------------------------------------- C17
\* C17 (as claimed): an accept() call for any tenant key and either value
\* of signatureValid adds exactly one DeliveryRecord, and with
\* signatureValid = FALSE adds no job.
C17_OneRecordPerAccept ==
  \A id \in FreeRecordIds, s \in Tenants, topic \in Topics, v \in BOOLEAN :
    LET r == accept(shops, deliveries, jobs, id, s, topic, v)
    IN  /\ DOMAIN r.deliveries = DOMAIN deliveries \cup {id}
        /\ id \notin DOMAIN deliveries
        /\ ~v => r.jobs = jobs

\* ---------------------------------------------------------------- C18
\* C18: no DeliveryRecord with hmac_valid = FALSE has status success.
C18_InvalidNeverSuccess ==
  \A id \in DOMAIN deliveries :
    ~deliveries[id].hmac_valid => deliveries[id].status # "SUCCESS"

\* a rejected record next to a record that reached success
C18_Witness ==
  /\ \E id \in DOMAIN deliveries :
       ~deliveries[id].hmac_valid /\ deliveries[id].status = "FAILED"
  /\ \E id \in DOMAIN deliveries :
       deliveries[id].hmac_valid /\ deliveries[id].status = "SUCCESS"

\* ---------------------------------------------------------------- C19
\* C19 (as claimed): an app/uninstalled event with an invalid signature,
\* for any tenant, enqueues nothing (so no handler touches the registry)
\* and leaves a DeliveryRecord with status failed and hmac_valid = FALSE.
C19_InvalidUninstallRejected ==
  \A id \in FreeRecordIds, s \in Tenants :
    LET r == accept(shops, deliveries, jobs, id, s, "app/uninstalled", FALSE)
    IN  /\ r.jobs = jobs
        /\ id \in DOMAIN r.deliveries
        /\ r.deliveries[id].status = "FAILED"
        /\ r.deliveries[id].hmac_valid = FALSE

\* ---------------------------------------------------------------- C20
\* C20 (as claimed): when the handler of a job failed (a store operation
\* of a webhook callback threw, or a general-lane handler threw) the job
\* is not completed: it is rescheduled while attempts < maxAttempts and
\* failed otherwise.
C20_HandlerFailureRoutedToFail ==
  [][\A w \in Pollers :
       (holding[w] # 0 /\ Process(w, "fail"))
       => LET j == holding[w]
          IN  /\ jobs'[j].status # "COMPLETED"
              /\ jobs'[j] = fail(jobs, j)[j]]_vars

\* ---------------------------------------------------------------- C21
\* C21 (as claimed): no step removes a DeliveryRecord; the records of a
\* tenant are still there after shop/redact was processed for it.
C21_RecordsNeverDeleted ==
  [][\A id \in DOMAIN deliveries :
       id \in DOMAIN deliveries' /\ deliveries'[id].shop = deliveries[id].shop]_vars

\* ---------------------------------------------------------------- C22
\* the record exists and has this status
RecordIs(id, st) == id \in DOMAIN deliveries /\ deliveries[id].status = st

\* C22 (as claimed): under fair scheduling of the pollers every
\* DeliveryRecord eventually has one terminal status, success or failed,
\* and keeps it for ever.
C22_EveryRecordTerminates ==
  \A id \in RecordIds :
    (id \in DOMAIN deliveries)
      ~> ([]RecordIs(id, "SUCCESS") \/ []RecordIs(id, "FAILED"))

C27_CustomersRedactIdempotent ==
  \A s \in Tenants, e1 \in {"ok", "fail"}, e2 \in {"ok", "fail"} :
    LET once == handlerEffect(shops, sessions, deliveries, jobs,
                              "customers/redact", s, "ok", 1)
        first == handlerEffect(shops, sessions, deliveries, jobs,
                               "customers/redact", s, e1, 1)
        again == handlerEffect(first.shops, first.sessions, first.deliveries,
                               first.jobs, "customers/redact", s, e2, 1)
    IN  /\ again = once
        /\ handlerOutcome("customers/redact", e1) = "resolved"
        /\ handlerOutcome("customers/redact", e2) = "resolved"

\* the same customers/redact event was delivered and processed twice for a
\* tenant that has session rows
C27_Witness ==
  /\ SessionIdsOf(sessions, "a.example") # {}
  /\ \A id \in RecordIds :
       /\ id \in DOMAIN deliveries
       /\ deliveries[id].topic = "customers/redact"
       /\ deliveries[id].shop = "a.example"
       /\ deliveries[id].status = "SUCCESS"

\* ---------------------------------------------------------------- C28
\* C28: the step that processes a shop/redact job changes no other job:
\* every other row of the job table keeps its status, attempts and
\* schedule.
C28_RedactKeepsJobs ==
  [][\A w \in Pollers :
       ( /\ holding[w] # 0
         /\ jobs[holding[w]].type = "shop/redact"
         /\ \E env \in {"ok", "fail"} : Process(w, env) )
       => \A j \in DOMAIN jobs \ {holding[w]} :
            j \in DOMAIN jobs' /\ jobs'[j] = jobs[j]]_vars

\* a tenant was redacted while a job referencing it is still pending
C28_Witness ==
  \E s \in Tenants :
    /\ ~HasShop(s)
    /\ \E j \in DOMAIN jobs :
         /\ jobs[j].type = "shop/redact"
         /\ jobs[j].shop = s
         /\ jobs[j].status = "COMPLETED"
    /\ \E j \in DOMAIN jobs :
         /\ jobs[j].shop = s
         /\ jobs[j].status = "PENDING"
         /\ jobs[j].attempts = 0

C25_ReportsAllCounts ==
  health.level \in {"info", "warn"}
  => \A l \in Lanes : health.lanes[l] = {"waiting", "active", "failed"}

\* ---------------------------------------------------------------- C26
\* C26: a health tick, also one that warns about the failed count or
\* whose query threw, changes nothing but the log: no exit, no pause, no
\* shutdown, no change to the jobs; while the process lives the next tick
\* can run.
C26_TickOnlyLogs ==
  /\ [][(\E f \in {0, FailedThreshold, FailedThreshold + 1}, th \in BOOLEAN :
            HealthTick(f, th))
        => UNCHANGED <<isShuttingDown, trigger, wpc, timerArmed, exitCode,
                       paused, waiting, active>>]_vars
  /\ [](Alive => ENABLED (\E f \in {0, FailedThreshold + 1}, th \in BOOLEAN :
                             HealthTick(f, th)))

\* after a tick whose query threw the worker runs on: not shutting down,
\* no lane paused, a job active
C26_Witness ==
  /\ health.level = "error"
  /\ Alive
  /\ ~isShuttingDown
  /\ \A l \in Lanes : ~paused[l]
  /\ \E l \in Lanes : active[l] > 0

\* ---------------------------------------------------------------- C30
\* C30 (as claimed): after a storeSession call that wrote the shop row, and
\* after an afterAuth call, for tenant s there is a shop row for s that is
\* active, has uninstalledAt NULL and holds the credential of that call.
C30_InstallIdempotent ==
  [][\A s \in Tenants :
       ( /\ session.shop = s
         /\ \/ HasShop(s) /\ StoreSession("none")
            \/ AfterAuth("ok") )
       => /\ s \in DOMAIN shops'
          /\ shops'[s].isActive
          /\ shops'[s].uninstalledAt = 0
          /\ shops'[s].accessTokenEncrypted = encryptToken(session.accessToken)]_vars

\* ---------------------------------------------------------------- C31
\* C31: when the app/uninstalled or the shop/redact handler runs a second
\* time for a tenant, with or without a store failure, it raises no error
\* and isActive, the credential and the existence of the shop row and of
\* the session rows are as the first run left them.
C31_DuplicateDelivery ==
  \A s \in Tenants, type \in {"app/uninstalled", "shop/redact"},
     e2 \in {"ok", "fail"} :
    LET first == handlerEffect(shops, sessions, deliveries, jobs, type, s,
                               "ok", 1)
        second == handlerEffect(first.shops, first.sessions, first.deliveries,
                                first.jobs, type, s, e2, 1)
    IN  /\ LifecycleView(second.shops, second.sessions, s)
             = LifecycleView(first.shops, first.sessions, s)
        /\ handlerOutcome(type, e2) = "resolved"

\* the same app/uninstalled event was delivered and processed twice
C31_Witness ==
  /\ HasShop("a.example")
  /\ ~shops["a.example"].isActive
  /\ \A id \in RecordIds :
       /\ id \in DOMAIN deliveries
       /\ deliveries[id].topic = "app/uninstalled"
       /\ deliveries[id].shop = "a.example"
       /\ deliveries[id].status = "SUCCESS"

\* ---------------------------------------------------------------- C32
\* C32: storeSession for a tenant that has no shop row returns true and
\* leaves a session row and an active shop row holding an encrypted
\* credential; every session row names a tenant that has a shop row.
C32_FirstStoreCreatesBoth ==
  /\ \A s \in Tenants \ DOMAIN shops : \A n \in TokenIdsOf(s) :
       LET o == [shop |-> s, accessToken |-> Plain(s, n)]
           r == storeSession(shops, sessions, o, "none")
       IN  /\ r.ret
           /\ SessionId(o) \in DOMAIN r.sessions
           /\ s \in DOMAIN r.shops
           /\ r.shops[s].isActive
           /\ CanDecrypt(r.shops[s].accessTokenEncrypted)
  /\ \A id \in DOMAIN sessions : sessions[id].shop \in DOMAIN shops

\* ---------------------------------------------------------------- C33
\* C33: a shop row that is active has no uninstalledAt.
C33_ActiveHasNoUninstalledAt ==
  \A s \in DOMAIN shops : shops[s].isActive => shops[s].uninstalledAt = 0

\* ---------------------------------------------------------------- C34
\* C34: storeSession leaves the Session object it was given as it was.
C34_CallerSessionUntouched ==
  session # NoSession =>
    \A fault \in {"none", "session", "shop"} :
      storeSession(shops, sessions, session, fault).session = session

\* ---------------------------------------------------------------- C35
\* C35: the credential in a tenant's shop row and the one in its session
\* row each decrypt, by one decryptToken, to the same plaintext token.
C35_CopiesAgree ==
  \A s \in DOMAIN shops : \A id \in SessionIdsOf(sessions, s) :
    (shops[s].accessTokenEncrypted # NoToken
       /\ sessions[id].access_token # NoToken) =>
      /\ CanDecrypt(shops[s].accessTokenEncrypted)
      /\ CanDecrypt(sessions[id].access_token)
      /\ decryptToken(shops[s].accessTokenEncrypted)
           = decryptToken(sessions[id].access_token)
      /\ decryptToken(sessions[id].access_token).layers = 0

\* ---------------------------------------------------------------- C36
\* C36: storeSession returns true or false whatever fails, and when it
\* returns false both tables are as they were before the call.
C36_FalseMeansUnchanged ==
  session # NoSession =>
    \A fault \in {"none", "session", "shop"} :
      LET r == storeSession(shops, sessions, session, fault)
      IN  /\ r.ret \in BOOLEAN
          /\ ~r.ret => (r.shops = shops /\ r.sessions = sessions)

\* ---------------------------------------------------------------- C37
\* C37: an app/uninstalled event that is already queued (pending, running
\* or waiting for a retry) when the tenant reinstalls, and is processed
\* after the reinstall, leaves the reinstalled tenant active.
C37_StaleUninstallIgnored ==
  \A j \in DOMAIN jobs :
    (jobs[j].type = "app/uninstalled"
       /\ jobs[j].status \in {"PENDING", "RUNNING"}) =>
      LET s == jobs[j].shop
          o == [shop |-> s, accessToken |-> Plain(s, 1)]
          r == storeSession(shops, sessions, o, "none")
          reinstalled == afterAuth(r.shops, r.session, "ok", "p1")
          e == handlerEffect(reinstalled, r.sessions, deliveries, jobs,
                             jobs[j].type, s, "ok", 1)
      IN  e.shops[s].isActive

\* ---------------------------------------------------------------- C38
\* C38: the /healthz loader always answers: 200 with status 'healthy'
\* exactly when the database query, the Redis ping and quit and the two
\* metric queries all succeeded, 503 with status 'unhealthy' when any of
\* them failed.
C38_HealthzAnswers ==
  /\ \A f \in HealthzSteps :
       LET r == loader(shops, sessions, f)
       IN  /\ r.code \in {200, 503}
           /\ r.code = 200 <=> r.status = "healthy"
           /\ r.code = 503 <=> r.status = "unhealthy"
           /\ r.code = 200 <=> f = "none"
  /\ response # NoResponse =>
       /\ response.code \in {200, 503}
       /\ response.code = 200 <=> response.status = "healthy"
       /\ response.code = 503 <=> response.status = "unhealthy"

\* the route answered unhealthy while tenants are installed
C38_Witness ==
  /\ response.code = 503
  /\ response.status = "unhealthy"
  /\ \E s \in DOMAIN shops : shops[s].isActive
====
